---- MODULE Spec2Model ----
(***************************************************************************)
(* State-machine model of the two cores of vibe-jam-room:                  *)
(*                                                                         *)
(*   - the Peer Connection Manager, in its two implementations: the       *)
(*     VideoGrid component (src/src/components/VideoGrid.tsx) and the      *)
(*     useWebRTC hook (src/unnamed/part_000);                              *)
(*   - the Synchronized Playback Controller, the host-gated SyncedPlayer   *)
(*     component (src/unnamed/part_002).                                   *)
(*                                                                         *)
(* Both are React function components.  A handler registered inside a      *)
(* useEffect keeps the variables of the render in which the effect ran:    *)
(* it reads useState values as they were in that render (until one of the  *)
(* effect's dependencies changes and the effect runs again), while useRef  *)
(* cells and functional updates (setX(prev => ...)) always see the current *)
(* value.  The model keeps, next to each useState value a handler reads,   *)
(* the copy that the registered handler closes over.                       *)
(***************************************************************************)
EXTENDS Integers, Sequences, FiniteSets, TLC

\* ------------------------------------------------------------------ bounds
NumUsers == 2
MaxConns == 2
MaxMounts == 2
MaxCands == 1     \* ICE candidates a connection discovers

Users == 1..NumUsers
NoConn == 0

VARIABLES
  impl,           \* which Peer Connection Manager the room runs
  mounted,        \* mounted[u]: u's component is mounted (u is in the room view)
  stream,         \* stream[u]: outcome of getUserMedia: "pending", "ok", "failed"
  sub,            \* sub[u]: u's signaling channel is subscribed and tracked
  conns,          \* conns[u]: every RTCPeerConnection u has created, in order
  pcs,            \* pcs[u][v]: index in conns[u] of the connection mapped to v, or NoConn
  snap,           \* snap[u]: the peerConnections Map the registered handlers closed over
  remoteStreams,  \* remoteStreams[u]: remote ids with a published remote stream
  presq,          \* presq[u]: presence events on their way to u, in order
  msgs,           \* broadcast messages on their way to their target
  tasks,          \* tasks[u]: suspended async continuations (awaiting createOffer etc.)
  mounts,         \* mounts[u]: how many times u has entered the room (bounded by MaxMounts)
  lastIn,         \* the user whose channel subscribed (and tracked) most recently
  offersSent,     \* offersSent[u][v]: offers u has sent to v
  answersSent     \* answersSent[u][v]: answers u has sent to v

peerVars == <<impl, mounted, stream, sub, conns, pcs, snap, remoteStreams,
              presq, msgs, tasks, mounts, lastIn, offersSent,
              answersSent>>

\* bounds and state of the Synchronized Playback Controller (see below)
MaxPos == 3       \* player positions, in seconds, range over 0..MaxPos
MaxStamp == 4     \* timestamps range over 1..MaxStamp
MaxExternal == 2  \* writes of the row by other participants
MaxSongs == 2     \* songs ever added to the queue

DriftTolerance == 2   \* seconds of drift syncPlayerWithState tolerates
HostThreshold == 1    \* seconds of drift syncHostPosition tolerates

NoSong == 0
Self == 1      \* userId of the instance under study
Other == 2     \* userId of another participant
\* "no row" / null playbackState; real rows have ts >= 1
NoRec == [song |-> NoSong, playing |-> FALSE, pos |-> 0, by |-> 0, ts |-> 0]
NoTimer == [song |-> NoSong, upd |-> FALSE]

VARIABLES
  isHost,    \* the isHost prop of the SyncedPlayer instance under study
  sp,        \* the state of that instance (see InitClient)
  queue,     \* ids of the songs rows of the room, by queue_position
  added,     \* number of songs added so far
  db,        \* the playback_state row of the room, or NoRec
  inflight,  \* upsert requests on their way to the store
  feed,      \* postgres_changes payloads on their way to the instance, in order
  now,       \* the last timestamp handed out
  issued,    \* number of upserts the instance has issued
  variant,   \* which syncPlayerWithState a reconcile pass of SpecSync runs
  passes     \* SpecSync: the reconcile passes run so far, with their commands

playVars == <<isHost, sp, queue, added, db, inflight, feed, now, issued,
              variant, passes>>

\* bounds and state of the playback_state table (see below)
NumRooms == 2      \* rooms
NumSessions == 2   \* browser sessions that write the table

VARIABLES
  uniq,      \* the playback_state table has its UNIQUE(room_id) constraint
  rooms,     \* ids of the rows of the rooms table
  rows,      \* the rows of the playback_state table
  reqs       \* reqs[c]: the upsert session c has sent and the store has not
             \*   executed yet, or NoReq

storeVars == <<uniq, rooms, rows, reqs>>

\* bounds and state of the Room page (see below)
MaxAdds == 3       \* songs ever added to the room's queue
HostId == 1        \* rooms.host_id: the user who created the room

VARIABLES
  entered,       \* entered[c]: session c shows the Room page
  participants,  \* the room_participants rows of the room
  hostFlag,      \* hostFlag[c]: isHost as c's SyncedPlayer receives it, or "none"
  songsTable,    \* the songs rows of the room: [id, queue_position]
  songsAdded,    \* number of songs rows ever inserted
  songsView      \* songsView[c]: ids of the `songs` state of c's Room page

roomVars == <<entered, participants, hostFlag, songsTable, songsAdded, songsView>>
vars == <<peerVars, playVars, storeVars, roomVars>>

EmptyMap == [v \in Users |-> NoConn]
Zero2 == [u \in Users |-> [v \in Users |-> 0]]

\* new RTCPeerConnection(configuration), local tracks attached when a stream
\* exists.  env is the peerConnections Map of the closure that created the
\* connection: its onconnectionstatechange handler looks the connection up there.
\* mount is the mount of the component that created the connection: the state
\* setters its handlers call act on that component and do nothing once it is
\* unmounted.
NewConn(peer, hasTracks, env, mount) ==
  [peer |-> peer, tracks |-> hasTracks, sig |-> "stable", rd |-> FALSE,
   env |-> env, mount |-> mount, found |-> 0, cands |-> 0]

PeerInit ==
  /\ impl \in {"VideoGrid", "useWebRTC"}
  /\ mounted = [u \in Users |-> FALSE]
  /\ stream = [u \in Users |-> "pending"]
  /\ sub = [u \in Users |-> FALSE]
  /\ conns = [u \in Users |-> <<>>]
  /\ pcs = [u \in Users |-> EmptyMap]
  /\ snap = [u \in Users |-> EmptyMap]
  /\ remoteStreams = [u \in Users |-> {}]
  /\ presq = [u \in Users |-> <<>>]
  /\ msgs = {}
  /\ tasks = [u \in Users |-> {}]
  /\ mounts = [u \in Users |-> 0]
  /\ lastIn = 0
  /\ offersSent = Zero2
  /\ answersSent = Zero2

\* ------------------------------------------------- signaling environment
\* Presence: the channel tells every other subscribed member, in order.
Notify(q, u, evs) ==
  [w \in Users |-> IF w # u /\ sub[w] THEN q[w] \o evs ELSE q[w]]

JoinEv(u) == [kind |-> "join", who |-> u]
LeaveEv(u) == [kind |-> "leave", who |-> u]

\* A broadcast message.  cid: the sender's connection that produced the
\* description; re: for an answer, the offering connection it answers.
Msg(type, from, to, cid, re) ==
  [type |-> type, from |-> from, to |-> to, cid |-> cid, re |-> re]

\* ------------------------------------------------- Peer Connection Manager
\* The Map that `peerConnections` denotes inside a registered handler.
\* VideoGrid keeps it in useState, so the handlers of the signaling effect
\* (deps [roomId, currentUserId, localStream]) read the Map of the render in
\* which that effect last ran; useWebRTC keeps it in a useRef, always current.
KnownMap(u) == IF impl = "VideoGrid" THEN snap[u] ELSE pcs[u]

\* What createPeerConnection(v, _) returns to its caller in u.
LinkFor(u, v) ==
  IF KnownMap(u)[v] # NoConn THEN KnownMap(u)[v] ELSE Len(conns[u]) + 1

OfferTask(k) == [kind |-> "offer", conn |-> k, re |-> 0]
AnswerTask(k, re) == [kind |-> "answer", conn |-> k, re |-> re]

\* createPeerConnection(v, isInitiator) up to its first await: the has() check,
\* new RTCPeerConnection, addTrack, the insertion into the mapping; the offer
\* of an initiator is produced after the await (OfferStep).  `then` is the
\* continuation the caller suspends on the returned connection, or {}.
createPeerConnection(u, v, isInitiator, then) ==
  IF KnownMap(u)[v] # NoConn
  THEN /\ tasks' = [tasks EXCEPT ![u] = @ \cup then]
       /\ UNCHANGED <<conns, pcs>>
  ELSE /\ Len(conns[u]) < MaxConns
       /\ conns' = [conns EXCEPT ![u] = Append(@, NewConn(v, stream[u] = "ok", KnownMap(u), mounts[u]))]
       /\ pcs' = [pcs EXCEPT ![u][v] = Len(conns[u]) + 1]
       /\ tasks' = [tasks EXCEPT ![u] =
                      @ \cup then \cup
                      (IF isInitiator THEN {OfferTask(Len(conns[u]) + 1)} ELSE {})]

\* closePeerConnection(v): the connection is looked up in the Map the handler
\* closed over; the deletions are functional updates of the current Maps.
closePeerConnection(u, v, env) ==
  LET pc == env[v] IN
  /\ IF pc # NoConn
     THEN /\ conns' = [conns EXCEPT ![u][pc].sig = "closed"]
          /\ pcs' = [pcs EXCEPT ![u][v] = NoConn]
     ELSE UNCHANGED <<conns, pcs>>
  /\ remoteStreams' = [remoteStreams EXCEPT ![u] = @ \ {v}]

\* Room entry.  VideoGrid subscribes and tracks at once (its signaling effect
\* does not wait for the local stream); useWebRTC returns early from its
\* effect until localStream is set.
Mount(u) ==
  /\ ~mounted[u]
  /\ mounts[u] < MaxMounts
  /\ mounts' = [mounts EXCEPT ![u] = @ + 1]
  /\ mounted' = [mounted EXCEPT ![u] = TRUE]
  /\ stream' = [stream EXCEPT ![u] = "pending"]
  /\ pcs' = [pcs EXCEPT ![u] = EmptyMap]
  /\ snap' = [snap EXCEPT ![u] = EmptyMap]
  /\ remoteStreams' = [remoteStreams EXCEPT ![u] = {}]
  /\ IF impl = "VideoGrid"
     THEN /\ sub' = [sub EXCEPT ![u] = TRUE]
          /\ presq' = Notify(presq, u, <<JoinEv(u)>>)
          /\ lastIn' = u
     ELSE UNCHANGED <<sub, presq, lastIn>>
  /\ UNCHANGED <<impl, conns, msgs, tasks, offersSent, answersSent>>
  /\ UNCHANGED <<playVars, storeVars, roomVars>>

\* getUserMedia settles.  On success localStream changes, so the signaling
\* effect is cleaned up (unsubscribe) and runs again (subscribe, track), and
\* its handlers close over the Maps of that render.
MediaResolved(u, ok) ==
  /\ mounted[u]
  /\ stream[u] = "pending"
  /\ stream' = [stream EXCEPT ![u] = IF ok THEN "ok" ELSE "failed"]
  /\ IF ok
     THEN /\ sub' = [sub EXCEPT ![u] = TRUE]
          /\ lastIn' = u
          /\ snap' = [snap EXCEPT ![u] = pcs[u]]
          /\ presq' = [Notify(presq, u,
                         IF sub[u] THEN <<LeaveEv(u), JoinEv(u)>> ELSE <<JoinEv(u)>>)
                       EXCEPT ![u] = <<>>]
     ELSE UNCHANGED <<sub, snap, presq, lastIn>>
  /\ UNCHANGED <<impl, mounted, conns, pcs, remoteStreams, msgs, tasks, mounts,
                 offersSent, answersSent>>
  /\ UNCHANGED <<playVars, storeVars, roomVars>>

\* presence join handler
HandleJoin(u) ==
  /\ sub[u]
  /\ presq[u] # <<>>
  /\ Head(presq[u]).kind = "join"
  /\ presq' = [presq EXCEPT ![u] = Tail(@)]
  /\ LET v == Head(presq[u]).who IN
     IF v # u /\ (impl = "useWebRTC" \/ stream[u] = "ok")
     THEN createPeerConnection(u, v, TRUE, {})
     ELSE UNCHANGED <<conns, pcs, tasks>>
  /\ UNCHANGED <<impl, mounted, stream, sub, snap, remoteStreams, msgs, mounts,
                 lastIn, offersSent, answersSent>>
  /\ UNCHANGED <<playVars, storeVars, roomVars>>

\* presence leave handler (VideoGrid only; useWebRTC registers none)
HandleLeave(u) ==
  /\ sub[u]
  /\ presq[u] # <<>>
  /\ Head(presq[u]).kind = "leave"
  /\ presq' = [presq EXCEPT ![u] = Tail(@)]
  /\ IF impl = "VideoGrid"
     THEN closePeerConnection(u, Head(presq[u]).who, snap[u])
     ELSE UNCHANGED <<conns, pcs, remoteStreams>>
  /\ UNCHANGED <<impl, mounted, stream, sub, snap, msgs, tasks, mounts,
                 lastIn, offersSent, answersSent>>
  /\ UNCHANGED <<playVars, storeVars, roomVars>>

\* The initiator's continuation: createOffer, setLocalDescription(offer), send.
\* Either call rejects unless the connection is still in "stable".
OfferStep(u, k) ==
  /\ OfferTask(k) \in tasks[u]
  /\ tasks' = [tasks EXCEPT ![u] = @ \ {OfferTask(k)}]
  /\ LET c == conns[u][k] IN
     IF c.sig = "stable"
     THEN /\ conns' = [conns EXCEPT ![u][k].sig = "have-local-offer"]
          /\ IF sub[u]
             THEN /\ msgs' = msgs \cup {Msg("offer", u, c.peer, k, 0)}
                  /\ offersSent' = [offersSent EXCEPT ![u][c.peer] = @ + 1]
             ELSE UNCHANGED <<msgs, offersSent>>
     ELSE UNCHANGED <<conns, msgs, offersSent>>
  /\ UNCHANGED <<impl, mounted, stream, sub, pcs, snap, remoteStreams, presq,
                 mounts, lastIn, answersSent>>
  /\ UNCHANGED <<playVars, storeVars, roomVars>>

\* broadcast 'offer' addressed to u: handleOffer up to its first real await
HandleOffer(u, m) ==
  /\ m \in msgs /\ m.type = "offer" /\ m.to = u
  /\ sub[u]
  /\ msgs' = msgs \ {m}
  /\ createPeerConnection(u, m.from, FALSE,
                          {AnswerTask(LinkFor(u, m.from), m.cid)})
  /\ UNCHANGED <<impl, mounted, stream, sub, snap, remoteStreams, presq, mounts,
                 lastIn, offersSent, answersSent>>
  /\ UNCHANGED <<playVars, storeVars, roomVars>>

\* ontrack of connection k of u, fired while setRemoteDescription completes
\* when the description comes from connection re of the peer and that one has
\* tracks attached: the remote stream is published under the peer's id (a
\* functional update of the state of the component that made the connection)
OnTrack(u, k, re) ==
  IF mounted[u] /\ conns[u][k].mount = mounts[u]
     /\ conns[conns[u][k].peer][re].tracks
  THEN [remoteStreams EXCEPT ![u] = @ \cup {conns[u][k].peer}]
  ELSE remoteStreams

\* handleOffer after createPeerConnection: setRemoteDescription(offer),
\* createAnswer, setLocalDescription(answer), send.  On a closed connection
\* setRemoteDescription rejects; on one that has its own offer pending the
\* browser either rolls that offer back or rejects (glare).
AnswerStep(u, t, rollback) ==
  /\ t \in tasks[u]
  /\ t.kind = "answer"
  /\ tasks' = [tasks EXCEPT ![u] = @ \ {t}]
  /\ LET k == t.conn
         c == conns[u][k] IN
     IF c.sig = "stable" \/ (c.sig = "have-local-offer" /\ rollback)
     THEN /\ conns' = [conns EXCEPT ![u][k].sig = "stable", ![u][k].rd = TRUE]
          /\ remoteStreams' = OnTrack(u, k, t.re)
          /\ IF sub[u]
             THEN /\ msgs' = msgs \cup {Msg("answer", u, c.peer, k, t.re)}
                  /\ answersSent' = [answersSent EXCEPT ![u][c.peer] = @ + 1]
             ELSE UNCHANGED <<msgs, answersSent>>
     ELSE UNCHANGED <<conns, remoteStreams, msgs, answersSent>>
  /\ UNCHANGED <<impl, mounted, stream, sub, pcs, snap, presq,
                 mounts, lastIn, offersSent>>
  /\ UNCHANGED <<playVars, storeVars, roomVars>>

\* handleAnswer: VideoGrid applies the answer if the Map it reads has a
\* connection that is not in "stable"; useWebRTC if the Map has one at all
\* (setRemoteDescription(answer) rejects unless in "have-local-offer").
handleAnswer(u, from, re) ==
  LET pc == KnownMap(u)[from] IN
  IF pc # NoConn /\ conns[u][pc].sig = "have-local-offer"
  THEN /\ conns' = [conns EXCEPT ![u][pc].sig = "stable", ![u][pc].rd = TRUE]
       /\ remoteStreams' = OnTrack(u, pc, re)
  ELSE UNCHANGED <<conns, remoteStreams>>

HandleAnswer(u, m) ==
  /\ m \in msgs /\ m.type = "answer" /\ m.to = u
  /\ sub[u]
  /\ msgs' = msgs \ {m}
  /\ handleAnswer(u, m.from, m.cid)
  /\ UNCHANGED <<impl, mounted, stream, sub, pcs, snap, presq,
                 tasks, mounts, lastIn, offersSent, answersSent>>
  /\ UNCHANGED <<playVars, storeVars, roomVars>>

\* onicecandidate: a connection whose local description is set discovers a
\* candidate and relays it at once
IceFound(u, k) ==
  /\ k \in 1..Len(conns[u])
  /\ sub[u]
  /\ LET c == conns[u][k] IN
     /\ c.sig = "have-local-offer" \/ (c.sig = "stable" /\ c.rd)
     /\ c.found < MaxCands
     /\ conns' = [conns EXCEPT ![u][k].found = @ + 1]
     /\ msgs' = msgs \cup {Msg("ice-candidate", u, c.peer, k, c.found + 1)}
  /\ UNCHANGED <<impl, mounted, stream, sub, pcs, snap, remoteStreams, presq,
                 tasks, mounts, lastIn, offersSent, answersSent>>
  /\ UNCHANGED <<playVars, storeVars, roomVars>>

\* addIceCandidate accepting a candidate before the remote description
handleIceCandidateEarly(u, from) ==
  LET pc == KnownMap(u)[from] IN
  IF pc # NoConn /\ conns[u][pc].sig # "closed"
  THEN conns' = [conns EXCEPT ![u][pc].cands = @ + 1]
  ELSE UNCHANGED conns

\* handleIceCandidate: VideoGrid tests pc.remoteDescription itself; useWebRTC
\* calls addIceCandidate on any connection it finds, which rejects (caught)
\* while the connection has no remote description.  Either way
\* addIceCandidate rejects on a closed connection.
handleIceCandidate(u, from) ==
  LET pc == KnownMap(u)[from] IN
  IF pc # NoConn /\ conns[u][pc].rd /\ conns[u][pc].sig # "closed"
  THEN conns' = [conns EXCEPT ![u][pc].cands = @ + 1]
  ELSE UNCHANGED conns

HandleIceCandidate(u, m) ==
  /\ m \in msgs /\ m.type = "ice-candidate" /\ m.to = u
  /\ sub[u]
  /\ msgs' = msgs \ {m}
  /\ handleIceCandidate(u, m.from)
  /\ UNCHANGED <<impl, mounted, stream, sub, pcs, snap, remoteStreams, presq,
                 tasks, mounts, lastIn, offersSent, answersSent>>
  /\ UNCHANGED <<playVars, storeVars, roomVars>>

\* The connection reports "disconnected" or "failed".  VideoGrid's
\* onconnectionstatechange closes the link; useWebRTC installs no such handler.
ConnFailed(u, k) ==
  /\ impl = "VideoGrid"
  /\ k \in 1..Len(conns[u])
  /\ conns[u][k].sig # "closed"
  /\ mounted[u] /\ conns[u][k].mount = mounts[u]
  /\ closePeerConnection(u, conns[u][k].peer, conns[u][k].env)
  /\ UNCHANGED <<impl, mounted, stream, sub, snap, presq, msgs, tasks, mounts,
                 lastIn, offersSent, answersSent>>
  /\ UNCHANGED <<playVars, storeVars, roomVars>>

\* Room exit.  VideoGrid: the signaling effect's cleanup unsubscribes; the
\* media effect's cleanup (deps []) closes the connections of the Map of the
\* first render, which is empty.  useWebRTC: the effect's cleanup closes and
\* clears the ref Map and unsubscribes (if the effect ever ran).  The
\* component's state, the mapping included, goes with the component.
Unmount(u) ==
  /\ mounted[u]
  /\ mounted' = [mounted EXCEPT ![u] = FALSE]
  /\ sub' = [sub EXCEPT ![u] = FALSE]
  /\ presq' = [IF sub[u] THEN Notify(presq, u, <<LeaveEv(u)>>) ELSE presq
               EXCEPT ![u] = <<>>]
  /\ msgs' = {m \in msgs : m.to # u}
  /\ IF impl = "useWebRTC" /\ sub[u]
     THEN /\ conns' = [conns EXCEPT ![u] =
                 [k \in 1..Len(@) |->
                    IF \E v \in Users : pcs[u][v] = k
                    THEN [@[k] EXCEPT !.sig = "closed"] ELSE @[k]]]
     ELSE UNCHANGED conns
  /\ pcs' = [pcs EXCEPT ![u] = EmptyMap]
  /\ UNCHANGED <<impl, stream, snap, remoteStreams, tasks, mounts, lastIn,
                 offersSent, answersSent>>
  /\ UNCHANGED <<playVars, storeVars, roomVars>>

PeerNext ==
  \/ \E u \in Users : Mount(u)
  \/ \E u \in Users, ok \in BOOLEAN : MediaResolved(u, ok)
  \/ \E u \in Users : HandleJoin(u)
  \/ \E u \in Users : HandleLeave(u)
  \/ \E u \in Users, k \in 1..MaxConns : OfferStep(u, k)
  \/ \E u \in Users, m \in msgs : HandleOffer(u, m)
  \/ \E u \in Users, rb \in BOOLEAN : \E t \in tasks[u] : AnswerStep(u, t, rb)
  \/ \E u \in Users, m \in msgs : HandleAnswer(u, m)
  \/ \E u \in Users, k \in 1..MaxConns : ConnFailed(u, k)
  \/ \E u \in Users : Unmount(u)


\* ------------------------------------------------ the playback_state table
NoReq == [room |-> 0]
Rooms == 1..NumRooms
Sessions == 1..NumSessions

\* the table untouched (the other parts of the model use the one row `db`)
StoreIdle ==
  /\ uniq = TRUE
  /\ rooms = {}
  /\ rows = {}
  /\ reqs = [c \in Sessions |-> NoReq]

\* the Room page not shown in any session
RoomIdle ==
  /\ entered = [c \in Sessions |-> FALSE]
  /\ participants = {}
  /\ hostFlag = [c \in Sessions |-> "none"]
  /\ songsTable = {}
  /\ songsAdded = 0
  /\ songsView = [c \in Sessions |-> <<>>]

\* ------------------------------------ Synchronized Playback Controller
\* One instance of the host-gated SyncedPlayer (src/unnamed/part_002), the
\* room's song queue that feeds its currentSong prop, and the shared
\* playback_state row with its change feed.  The other participants of the
\* room appear through what they do to the queue and to the row.
InitClient ==
  [ cur |-> NoSong,             \* currentSong?.id (songs[0] of the Room)
    pstate |-> "none",          \* playerRef/isPlayerReady/isInitializedRef:
                                \*   "none"    no player, not initialized
                                \*   "loading" player created, onReady pending
                                \*   "ready"   isPlayerReady = true
                                \*   "idle"    player kept, isPlayerReady = false
                                \*   "destroyed" the component is unmounted
    ppos |-> 0,                 \* the player's getCurrentTime()
    pplaying |-> FALSE,         \* getPlayerState() = PLAYING
    endSong |-> NoSong,         \* songs[0].id in the onSongEnd the player's
                                \*   onStateChange handler closed over
    playbackState |-> NoRec,    \* useState playbackState
    effPS |-> NoRec,            \* playbackState in the subscribe effect's closure
    effUpd |-> FALSE,           \* isUpdatingState in the subscribe effect's closure
    effSong |-> NoSong,         \* currentSong?.id in the subscribe effect's closure
    listening |-> FALSE,        \* the subscribe effect is active (channel, timer)
    isUpdatingState |-> FALSE,  \* useState isUpdatingState
    lastUpdateRef |-> 0,        \* lastUpdateRef.current
    isSyncing |-> FALSE,        \* isSyncingRef.current
    songTimer |-> NoTimer,      \* the 500 ms timeout of the song-change effect
    loadq |-> FALSE ]           \* a loadPlaybackState select is in flight

PlayInit ==
  /\ isHost \in BOOLEAN
  /\ sp = InitClient
  /\ queue = <<>>
  /\ added = 0
  \* a room has no row, or the row its insert trigger created for the host
  /\ db \in {NoRec, [NoRec EXCEPT !.ts = 1, !.by = IF isHost THEN Self ELSE Other]}
  /\ inflight = {}
  /\ feed = <<>>
  /\ now = 1
  /\ issued = 0
  /\ variant = "gated"
  /\ passes = <<>>

\* ---- the player and syncPlayerWithState
Positions == 0..MaxPos

Abs(x) == IF x < 0 THEN -x ELSE x

SeekTo(t) == [op |-> "seekTo", t |-> t]
PlayVideo == [op |-> "playVideo", t |-> 0]
PauseVideo == [op |-> "pauseVideo", t |-> 0]

\* the effect of one player command on a client
Exec(c, cmd) ==
  CASE cmd.op = "seekTo" -> [c EXCEPT !.ppos = cmd.t]
    [] cmd.op = "playVideo" -> [c EXCEPT !.pplaying = TRUE]
    [] cmd.op = "pauseVideo" -> [c EXCEPT !.pplaying = FALSE]

RECURSIVE Run(_, _)
Run(c, cmds) == IF cmds = <<>> THEN c ELSE Run(Exec(c, Head(cmds)), Tail(cmds))

\* a seek at 2 seconds of drift already
seekCommandsAtTolerance(currentTime, state) ==
  IF Abs(currentTime - state.pos) >= DriftTolerance
  THEN <<SeekTo(state.pos)>> ELSE <<>>

\* "Sync position if difference is more than 2 seconds"
seekCommands(currentTime, state) ==
  IF Abs(currentTime - state.pos) > DriftTolerance
  THEN <<SeekTo(state.pos)>> ELSE <<>>

\* "Sync play/pause state", host-gated SyncedPlayer
playCommands(isCurrentlyPlaying, state) ==
  IF state.playing /\ ~isCurrentlyPlaying THEN <<PlayVideo>>
  ELSE IF ~state.playing /\ isCurrentlyPlaying THEN <<PauseVideo>>
  ELSE <<>>

\* the same step in the non-gated side of components/SyncedPlayer.tsx
playCommandsNonGated(isCurrentlyPlaying, state) ==
  IF state.playing THEN <<PlayVideo>> ELSE <<PauseVideo>>

\* the commands of one pass of syncPlayerWithState(state)
syncCommands(v, currentTime, isCurrentlyPlaying, state) ==
  seekCommands(currentTime, state)
  \o (IF v = "gated" THEN playCommands(isCurrentlyPlaying, state)
      ELSE playCommandsNonGated(isCurrentlyPlaying, state))

\* syncPlayerWithState(state) in a handler of the subscribe effect (whose
\* closure has isPlayerReady = true): the guard, the commands, the
\* re-entrancy flag that a 100 ms timeout releases (SyncRelease).
syncPlayerWithState(v, c, state) ==
  IF c.pstate \notin {"ready", "idle"} \/ (v = "gated" /\ c.isSyncing)
  THEN c
  ELSE [Run(c, syncCommands(v, c.ppos, c.pplaying, state))
          EXCEPT !.isSyncing = (v = "gated")]

\* ---- effects of the component, as functions of the instance's state
\* "Initialize player when YouTube API is ready" (deps [currentSong?.id])
initEffect(c) ==
  IF c.cur # NoSong /\ c.pstate \in {"none", "idle"}
  THEN [c EXCEPT !.pstate = "loading", !.endSong = c.cur,
                 !.ppos = 0, !.pplaying = FALSE]
  ELSE c

\* "Reload player when song changes" (deps [currentSong?.id, isPlayerReady]);
\* loadVideoById starts the video; h is the isHost prop
songChangeEffect(c, h) ==
  IF c.cur = NoSong
  THEN [c EXCEPT !.pstate = IF @ \in {"loading", "ready"} THEN "idle" ELSE @]
  ELSE IF c.pstate = "ready"
  THEN [c EXCEPT !.ppos = 0, !.pplaying = TRUE,
                 !.songTimer = IF h THEN [song |-> c.cur, upd |-> c.isUpdatingState]
                               ELSE @]
  ELSE c

\* "Subscribe to playback state changes" (deps [roomId, isPlayerReady, isHost]):
\* was is isPlayerReady before the render; the handlers registered by a run
\* close over the render's playbackState, isUpdatingState and currentSong
subscribeEffect(c, was) ==
  IF c.pstate = "ready" /\ ~was
  THEN [c EXCEPT !.loadq = TRUE, !.listening = TRUE, !.effPS = c.playbackState,
                 !.effUpd = c.isUpdatingState, !.effSong = c.cur]
  ELSE IF c.pstate # "ready" /\ was
  THEN [c EXCEPT !.listening = FALSE]
  ELSE c

\* a render of the component that takes its state to c
Render(c) ==
  LET d == subscribeEffect(c, sp.pstate = "ready") IN
  /\ sp' = d
  /\ feed' = IF d.listening = sp.listening THEN feed
             ELSE <<>>

\* ---- the shared record
\* .upsert(row, {onConflict: 'room_id'}): the columns given replace the row's
Upsert(row, w) ==
  [song |-> IF w.hasSong THEN w.song ELSE row.song,
   playing |-> IF w.hasPlaying THEN w.playing ELSE row.playing,
   pos |-> w.pos, by |-> w.by, ts |-> w.ts]

\* the instance sends an upsert stamped with the next timestamp
Issue(w) ==
  /\ now < MaxStamp
  /\ now' = now + 1
  /\ inflight' = inflight \cup {[w EXCEPT !.by = Self, !.ts = now + 1]}
  /\ issued' = issued + 1

Updates(hasSong, song, hasPlaying, playing, hasPos, pos) ==
  [kind |-> "update", hasSong |-> hasSong, song |-> song,
   hasPlaying |-> hasPlaying, playing |-> playing, hasPos |-> hasPos,
   pos |-> pos, by |-> 0, ts |-> 0]

\* initializePlaybackState() up to its await; the instance's other state becomes c
initializePlaybackState(c) ==
  /\ sp' = c
  /\ Issue([Updates(TRUE, c.effSong, TRUE, FALSE, TRUE, 0) EXCEPT !.kind = "init"])

\* updatePlaybackState(updates) up to its await, called from a closure in
\* which isUpdatingState is `busy`; the instance's other state becomes c
updatePlaybackState(c, updates, busy) ==
  IF busy
  THEN /\ sp' = c
       /\ UNCHANGED <<inflight, now, issued>>
  ELSE /\ sp' = [c EXCEPT !.isUpdatingState = TRUE, !.lastUpdateRef = now + 1]
       /\ Issue([updates EXCEPT !.pos = IF updates.hasPos THEN @ ELSE c.ppos])

\* the Room's handleSongEnd as the caller closed over it: songs[0] is `song`
onSongEnd(song) ==
  queue' = SelectSeq(queue, LAMBDA x : x # song)

\* ---- steps
\* a participant queues a song (Room.handleAddSong)
AddSong ==
  /\ added < MaxSongs
  /\ added' = added + 1
  /\ queue' = Append(queue, added + 1)
  /\ UNCHANGED <<isHost, sp, db, inflight, feed, now, issued, variant, passes>>
  /\ UNCHANGED <<peerVars, storeVars, roomVars>>

\* a participant removes a song from the queue (Room.handleDeleteSong)
DeleteSong(song) ==
  /\ \E i \in 1..Len(queue) : queue[i] = song
  /\ onSongEnd(song)
  /\ UNCHANGED <<isHost, sp, added, db, inflight, feed, now, issued, variant, passes>>
  /\ UNCHANGED <<peerVars, storeVars, roomVars>>

\* the room's host, when it is another participant, writes the row
ExternalWrite(playing, pos) ==
  LET row == [song |-> IF queue = <<>> THEN db.song ELSE Head(queue),
              playing |-> playing, pos |-> pos, by |-> Other, ts |-> now + 1] IN
  /\ ~isHost
  /\ now <= MaxExternal
  /\ now' = now + 1
  /\ db' = row
  /\ feed' = IF sp.listening THEN Append(feed, row) ELSE feed
  /\ UNCHANGED <<isHost, sp, queue, added, inflight, issued, variant, passes>>
  /\ UNCHANGED <<peerVars, storeVars, roomVars>>

\* the Room's songs arrive (loadSongs): currentSong becomes songs[0] and the
\* effects that depend on it run.  A pending song-change timeout fires before
\* the next change of song.
RefreshSongs ==
  LET new == IF queue = <<>> THEN NoSong ELSE Head(queue)
      c == songChangeEffect(initEffect([sp EXCEPT !.cur = new]), isHost) IN
  /\ sp.pstate # "destroyed"
  /\ new # sp.cur
  /\ c.songTimer = sp.songTimer \/ sp.songTimer = NoTimer
  /\ Render(c)
  /\ UNCHANGED <<isHost, queue, added, db, inflight, now, issued, variant, passes>>
  /\ UNCHANGED <<peerVars, storeVars, roomVars>>

\* onReady of the player: setIsPlayerReady(true), then the effects
handlePlayerReady ==
  LET c == songChangeEffect([sp EXCEPT !.pstate = "ready"], isHost) IN
  /\ sp.pstate = "loading"
  /\ c.songTimer = sp.songTimer \/ sp.songTimer = NoTimer
  /\ Render(c)
  /\ UNCHANGED <<isHost, queue, added, db, inflight, now, issued, variant, passes>>
  /\ UNCHANGED <<peerVars, storeVars, roomVars>>

\* the select of loadPlaybackState returns (maybeSingle: the row, null, or an error)
loadPlaybackState(error) ==
  LET c == [sp EXCEPT !.loadq = FALSE] IN
  /\ sp.loadq
  /\ IF error \/ db = NoRec
     THEN IF isHost /\ c.effSong # NoSong
          THEN initializePlaybackState(c)
          ELSE /\ sp' = c
               /\ UNCHANGED <<inflight, now, issued>>
     ELSE /\ sp' = syncPlayerWithState("gated", [c EXCEPT !.playbackState = db], db)
          /\ UNCHANGED <<inflight, now, issued>>
  /\ UNCHANGED <<isHost, queue, added, db, feed, variant, passes>>
  /\ UNCHANGED <<peerVars, storeVars, roomVars>>

\* an upsert of the instance reaches the store: the row changes, the change
\* feed tells the instance if it is subscribed, and its finally block runs
WriteDone(w, ok) ==
  /\ w \in inflight
  /\ inflight' = inflight \ {w}
  /\ IF ok
     THEN /\ db' = Upsert(db, w)
          /\ feed' = IF sp.listening THEN Append(feed, Upsert(db, w)) ELSE feed
     ELSE UNCHANGED <<db, feed>>
  /\ sp' = IF w.kind = "update"
           THEN [sp EXCEPT !.isUpdatingState = FALSE] ELSE sp
  /\ UNCHANGED <<isHost, queue, added, now, issued, variant, passes>>
  /\ UNCHANGED <<peerVars, storeVars, roomVars>>

\* handlePlaybackUpdate without its "Prevent update loops" test
handlePlaybackUpdateNoEchoTest ==
  LET newState == Head(feed) IN
  /\ feed # <<>>
  /\ feed' = Tail(feed)
  /\ sp' = syncPlayerWithState("gated",
              [sp EXCEPT !.lastUpdateRef = newState.ts,
                         !.playbackState = newState], newState)
  /\ UNCHANGED <<isHost, queue, added, db, inflight, now, issued, variant, passes>>
  /\ UNCHANGED <<peerVars, storeVars, roomVars>>

\* a postgres_changes payload is delivered
handlePlaybackUpdate ==
  LET newState == Head(feed)
      c == sp IN
  /\ feed # <<>>
  /\ feed' = Tail(feed)
  /\ IF newState.by = Self /\ c.lastUpdateRef = newState.ts
     THEN UNCHANGED sp
     ELSE sp' = syncPlayerWithState("gated",
                  [c EXCEPT !.lastUpdateRef = newState.ts,
                            !.playbackState = newState], newState)
  /\ UNCHANGED <<isHost, queue, added, db, inflight, now, issued, variant, passes>>
  /\ UNCHANGED <<peerVars, storeVars, roomVars>>

\* the 100 ms timeout of syncPlayerWithState's finally block
SyncRelease ==
  /\ sp.isSyncing
  /\ sp' = [sp EXCEPT !.isSyncing = FALSE]
  /\ UNCHANGED <<isHost, queue, added, db, inflight, feed, now, issued, variant,
                 passes>>
  /\ UNCHANGED <<peerVars, storeVars, roomVars>>

\* a tick of the host's 2-second interval: syncHostPosition() as the
\* subscribe effect closed over it
hostSyncDue(c) ==
  /\ ~c.effUpd
  /\ c.effPS # NoRec
  /\ Abs(c.ppos - c.effPS.pos) > HostThreshold \/ c.pplaying # c.effPS.playing

syncHostPosition ==
  LET c == sp IN
  /\ c.listening /\ isHost
  /\ IF hostSyncDue(c)
     THEN updatePlaybackState(c, Updates(FALSE, NoSong, TRUE, c.pplaying, TRUE, c.ppos),
                              c.effUpd)
     ELSE UNCHANGED <<sp, inflight, now, issued>>
  /\ UNCHANGED <<isHost, queue, added, db, feed, variant, passes>>
  /\ UNCHANGED <<peerVars, storeVars, roomVars>>

\* the timeout of the song-change effect fires
SongTimerFire ==
  LET t == sp.songTimer IN
  /\ t # NoTimer
  /\ updatePlaybackState([sp EXCEPT !.songTimer = NoTimer],
                         Updates(TRUE, t.song, TRUE, FALSE, TRUE, 0), t.upd)
  /\ UNCHANGED <<isHost, queue, added, db, feed, variant, passes>>
  /\ UNCHANGED <<peerVars, storeVars, roomVars>>

\* the non-gated side of components/SyncedPlayer.tsx: handlePlay without the
\* isHost test
handlePlayNonGated ==
  /\ sp.pstate = "ready"
  /\ ~sp.playbackState.playing
  /\ updatePlaybackState(Exec(sp, PlayVideo),
                         Updates(FALSE, NoSong, TRUE, TRUE, FALSE, 0),
                         sp.isUpdatingState)
  /\ UNCHANGED <<isHost, queue, added, db, feed, variant, passes>>
  /\ UNCHANGED <<peerVars, storeVars, roomVars>>

\* a play request (the button shows Play unless playbackState.is_playing)
handlePlay ==
  /\ sp.pstate = "ready"
  /\ ~sp.playbackState.playing
  /\ IF ~isHost
     THEN UNCHANGED <<sp, inflight, now, issued>>
     ELSE updatePlaybackState(Exec(sp, PlayVideo),
                              Updates(FALSE, NoSong, TRUE, TRUE, FALSE, 0),
                              sp.isUpdatingState)
  /\ UNCHANGED <<isHost, queue, added, db, feed, variant, passes>>
  /\ UNCHANGED <<peerVars, storeVars, roomVars>>

\* a pause request
handlePause ==
  /\ sp.pstate = "ready"
  /\ sp.playbackState.playing
  /\ IF ~isHost
     THEN UNCHANGED <<sp, inflight, now, issued>>
     ELSE updatePlaybackState(Exec(sp, PauseVideo),
                              Updates(FALSE, NoSong, TRUE, FALSE, FALSE, 0),
                              sp.isUpdatingState)
  /\ UNCHANGED <<isHost, queue, added, db, feed, variant, passes>>
  /\ UNCHANGED <<peerVars, storeVars, roomVars>>

\* a skip request
handleSkip ==
  /\ sp.pstate = "ready"
  /\ IF ~isHost THEN UNCHANGED queue ELSE onSongEnd(sp.cur)
  /\ UNCHANGED <<isHost, sp, added, db, inflight, feed, now, issued, variant, passes>>
  /\ UNCHANGED <<peerVars, storeVars, roomVars>>

\* the player reaches the end of the video (at MaxPos) and reports ENDED
handlePlayerStateChange ==
  /\ sp.pstate = "ready"
  /\ sp.pplaying /\ sp.ppos = MaxPos
  /\ sp' = [sp EXCEPT !.pplaying = FALSE]
  /\ IF ~isHost THEN UNCHANGED queue ELSE onSongEnd(sp.endSong)
  /\ UNCHANGED <<isHost, added, db, inflight, feed, now, issued, variant, passes>>
  /\ UNCHANGED <<peerVars, storeVars, roomVars>>

\* a second of playback passes in the player
Tick ==
  /\ sp.pstate \in {"ready", "idle"}
  /\ sp.pplaying
  /\ sp.ppos < MaxPos
  /\ sp' = [sp EXCEPT !.ppos = @ + 1]
  /\ UNCHANGED <<isHost, queue, added, db, inflight, feed, now, issued, variant,
                 passes>>
  /\ UNCHANGED <<peerVars, storeVars, roomVars>>

Init == PeerInit /\ impl = "VideoGrid" /\ PlayInit /\ StoreIdle /\ RoomIdle

Next ==
  \/ AddSong
  \/ \E song \in 1..MaxSongs : DeleteSong(song)
  \/ \E playing \in BOOLEAN, pos \in Positions : ExternalWrite(playing, pos)
  \/ RefreshSongs
  \/ handlePlayerReady
  \/ \E error \in BOOLEAN : loadPlaybackState(error)
  \/ \E w \in inflight, ok \in BOOLEAN : WriteDone(w, ok)
  \/ handlePlaybackUpdate
  \/ SyncRelease
  \/ syncHostPosition
  \/ SongTimerFire
  \/ handlePlay
  \/ handlePause
  \/ handleSkip
  \/ handlePlayerStateChange
  \/ Tick

Spec == Init /\ [][Next]_vars

\* the component is unmounted (the Room page goes away): the cleanup of the
\* mount effect destroys the player and clears the interval, the cleanup of
\* the subscribe effect removes the channel and clears the interval.  The
\* timeout of the song-change effect and a pending select are left to run.
unmountPlayer ==
  /\ sp.pstate # "destroyed"
  /\ sp' = [sp EXCEPT !.pstate = "destroyed", !.ppos = 0, !.pplaying = FALSE,
                      !.listening = FALSE]
  /\ feed' = <<>>
  /\ UNCHANGED <<isHost, queue, added, db, inflight, now, issued, variant, passes>>
  /\ UNCHANGED <<peerVars, storeVars, roomVars>>

\* the instance with its unmount
UnmountNext ==
  \/ AddSong
  \/ \E song \in 1..MaxSongs : DeleteSong(song)
  \/ \E playing \in BOOLEAN, pos \in Positions : ExternalWrite(playing, pos)
  \/ RefreshSongs
  \/ handlePlayerReady
  \/ \E error \in BOOLEAN : loadPlaybackState(error)
  \/ \E w \in inflight, ok \in BOOLEAN : WriteDone(w, ok)
  \/ handlePlaybackUpdate
  \/ SyncRelease
  \/ syncHostPosition
  \/ SongTimerFire
  \/ handlePlay
  \/ handlePause
  \/ handleSkip
  \/ handlePlayerStateChange
  \/ Tick
  \/ unmountPlayer

SpecUnmount == Init /\ [][UnmountNext]_vars

\* ---- properties of the Synchronized Playback Controller
\* C2: an instance whose host flag is false never issues an upsert of the
\* playback_state row.
C2_NonHostNeverWrites ==
  ~isHost => (issued = 0 /\ \A w \in inflight : w.by # Self)

C2_Witness ==
  /\ ~isHost /\ issued = 0
  /\ sp.pstate = "ready" /\ sp.cur = 2
  /\ sp.playbackState.by = Other /\ sp.playbackState.ts = MaxExternal + 1
  /\ sp.pplaying /\ sp.ppos = MaxPos

\* nothing is on its way to or from the instance
PlayQuiet ==
  /\ feed = <<>> /\ inflight = {}
  /\ ~sp.loadq /\ sp.songTimer = NoTimer /\ ~sp.isSyncing

\* the instance has received the row as it stands
KnowsRow ==
  \/ sp.playbackState = db
  \/ db.by = Self /\ sp.lastUpdateRef = db.ts

\* C3: once no write is outstanding and every change-feed update has been
\* delivered, a ready participant that follows the current song and has
\* received the row plays exactly if the row says so and, the row being
\* paused, is within 2 seconds of the row's position.
C3_Converges ==
  ( /\ PlayQuiet /\ KnowsRow
    /\ sp.pstate = "ready" /\ sp.listening
    /\ db # NoRec /\ queue # <<>> /\ sp.cur = Head(queue) /\ db.song = sp.cur
    /\ sp.ppos < MaxPos )
  => /\ sp.pplaying = db.playing
     /\ ~db.playing => Abs(sp.ppos - db.pos) <= 2

\* C9: a tick of the host timer issues a write only if the player's position
\* differs from the last-known row's by more than 1 second or its play state
\* differs from the last-known row's playing flag.
C9_HostSyncOnlyOnChange ==
  [][(syncHostPosition /\ issued' = issued + 1)
       => \/ Abs(sp.ppos - sp.playbackState.pos) > 1
          \/ sp.pplaying # sp.playbackState.playing]_vars

\* C10: while the host's player is ready, the row exists and the player has
\* moved more than 1 second from the row's position or differs from it in
\* play state, and no write is in progress, the next tick of the host timer
\* writes the player's position and play state.
C10_HostSyncWrites ==
  ( /\ isHost /\ sp.pstate = "ready" /\ sp.listening
    /\ db # NoRec
    /\ Abs(sp.ppos - db.pos) > 1 \/ sp.pplaying # db.playing
    /\ ~sp.isUpdatingState /\ inflight = {} /\ feed = <<>> /\ ~sp.loadq
    /\ sp.songTimer = NoTimer )
  => hostSyncDue(sp)

C12_RequestWrites ==
  [][( /\ isHost
       /\ (handlePlay \/ handlePause) )
     => LET want == ~sp.playbackState.playing IN
        /\ sp'.pplaying = want
        /\ issued' = issued + 1
        /\ \E w \in inflight' \ inflight :
             w.hasPlaying /\ w.playing = want /\ w.by = Self]_vars

\* C13: when a row written by the host with playing = true is delivered to a
\* ready, paused follower, its player plays afterwards, at the row's position
\* if it was more than 2 seconds away from it and where it was otherwise.
C13_FollowerPlays ==
  [][( /\ ~isHost
       /\ handlePlaybackUpdate
       /\ Head(feed).by = Other /\ Head(feed).playing
       /\ sp.pstate = "ready" /\ ~sp.pplaying )
     => /\ sp'.pplaying
        /\ sp'.ppos = IF Abs(sp.ppos - Head(feed).pos) > 2
                      THEN Head(feed).pos ELSE sp.ppos]_vars

\* C15: when the select of loadPlaybackState returns without error and the
\* room has a current song: with no row, the host issues an upsert with that
\* song, playing = false, position 0 and updated_by the host, and a non-host
\* issues nothing; with a row, nothing is issued, the row becomes the
\* last-known record and (no other pass being under way) the player is
\* reconciled with it.
C15_LoadRecord ==
  [][( /\ loadPlaybackState(FALSE)
       /\ sp.cur # NoSong )
     => IF db = NoRec
        THEN IF isHost
             THEN /\ issued' = issued + 1
                  /\ \E w \in inflight' \ inflight :
                       /\ w.hasSong /\ w.song = sp.cur
                       /\ w.hasPlaying /\ ~w.playing
                       /\ w.pos = 0 /\ w.by = Self
             ELSE issued' = issued /\ inflight' = inflight
        ELSE /\ issued' = issued /\ inflight' = inflight
             /\ sp'.playbackState = db
             /\ ~sp.isSyncing =>
                  /\ sp'.pplaying = db.playing
                  /\ sp'.ppos = IF Abs(sp.ppos - db.pos) > 2
                                THEN db.pos ELSE sp.ppos]_vars

\* C19: when the player reports the end of the video, a non-host instance
\* leaves the queue as it is, and the host, playing the first queue entry,
\* removes exactly that entry.
C19_EndAdvancesOnce ==
  [][handlePlayerStateChange
     => IF isHost
        THEN (queue # <<>> /\ sp.cur = Head(queue)) => queue' = Tail(queue)
        ELSE queue' = queue]_vars

\* C23: whatever the interleaving of the instance's own writes with the
\* deliveries of the change feed, a delivered record whose updated_by is the
\* instance's own user is never reconciled: the pass that would take it over
\* as last-known record and last timestamp does not run.
C23_OwnRecordNeverReconciled ==
  [][(handlePlaybackUpdate /\ Head(feed).by = Self)
     => /\ sp'.lastUpdateRef = sp.lastUpdateRef
        /\ sp'.playbackState = sp.playbackState]_vars

\* C24: the instance has at most one write in flight at any time: while an
\* upsert it issued has not completed, a tick of the host timer, a play or
\* pause request and the delayed song-change write issue nothing.
C24_OneWriteInFlight ==
  [][inflight # {} => issued' = issued]_vars

\* C27: once a write of the host has succeeded and its change-feed record has
\* been delivered to the host, the host's last-known record is that record, so
\* that after a play request that went through the toggle offers pause.
C27_OwnWriteBecomesLastKnown ==
  [][(isHost /\ handlePlaybackUpdate /\ Head(feed).by = Self)
     => /\ sp'.playbackState = Head(feed)
        /\ Head(feed).playing => ENABLED handlePause]_vars

\* C28: loadPlaybackState never overwrites a row the room already has: when
\* its select returns, with or without an error, and the row exists, no upsert
\* is issued, so playing flag, position and current song of the row stay.
C28_LoadNeverOverwrites ==
  [][((\E error \in BOOLEAN : loadPlaybackState(error)) /\ db # NoRec)
     => issued' = issued /\ inflight' = inflight]_vars

\* C29: once the component is unmounted the instance issues no write any
\* more, neither from the host timer nor from the delayed song-change write.
C29_NoWriteAfterUnmount ==
  [][sp.pstate = "destroyed" => issued' = issued]_vars

\* C21: when an upsert of updatePlaybackState fails, the row is left as it is,
\* no write is issued in its place, and the write-in-flight guard is released
\* both as a play/pause request reads it and as the host timer reads it.
C21_FailedWriteReleases ==
  [][\A w \in inflight :
       (WriteDone(w, FALSE) /\ w.kind = "update")
       => /\ db' = db
          /\ issued' = issued /\ inflight' = inflight \ {w}
          /\ ~sp'.isUpdatingState
          /\ (isHost /\ sp.listening) => ~sp'.effUpd]_vars

\* the Peer Connection Manager on its own (the player idle)
PlayIdle ==
  /\ PlayInit
  /\ isHost = FALSE
  /\ db = NoRec

PeerOnlyInit == PeerInit /\ PlayIdle /\ StoreIdle /\ RoomIdle

SpecPeer == PeerOnlyInit /\ [][PeerNext]_vars

\* Nothing is on its way: every presence event and broadcast has been handled
\* and no continuation is suspended.
PeerQuiet ==
  /\ \A u \in Users : presq[u] = <<>> /\ tasks[u] = {}
  /\ msgs = {}

Mapped(u) == {v \in Users : pcs[u][v] # NoConn}
Present(u) == {v \in Users \ {u} : sub[v]}

\* C1: the mapping never replaces the connection held for a remote id by
\* another one: while a remote id has a connection, a step leaves that same
\* connection in place or removes it.
C1_NoReplace ==
  [][\A u \in Users : \A v \in Users :
       (pcs[u][v] # NoConn /\ mounted'[u]) => pcs'[u][v] \in {NoConn, pcs[u][v]}]_vars

\* C4: when c is the last to join and everything in flight has been handled,
\* each member a present before c has sent exactly one offer to c, c has sent
\* no offer to a and exactly one answer to a.
C4_JoinerAnswers ==
  \A a \in Users : \A c \in Users \ {a} :
    ( /\ lastIn = c /\ sub[a] /\ sub[c]
      /\ stream[a] = "ok" /\ stream[c] = "ok"
      /\ mounts[a] = 1 /\ mounts[c] = 1
      /\ PeerQuiet )
    => /\ offersSent[a][c] = 1
       /\ offersSent[c][a] = 0
       /\ answersSent[c][a] = 1

\* C5: in VideoGrid, when the answer to the offer of u's connection k is
\* delivered while k is still u's link to the answerer and still has its offer
\* pending, handling the answer takes k out of have-local-offer.
C5_AnswerApplied ==
  [][\A u \in Users : \A m \in msgs :
       ( /\ impl = "VideoGrid"
         /\ HandleAnswer(u, m)
         /\ m.re # NoConn
         /\ pcs[u][m.from] = m.re
         /\ conns[u][m.re].sig = "have-local-offer" )
       => conns'[u][m.re].sig # "have-local-offer"]_vars

\* C6: once the presence events on their way to a participant have been
\* handled, it holds no more links than there are other participants present.
C6_LinksBounded ==
  \A u \in Users :
    (mounted[u] /\ presq[u] = <<>>) => Cardinality(Mapped(u)) <= Cardinality(Present(u))

\* The Peer Connection Manager with the media plane: trickled candidates and
\* remote tracks, over one stay of each participant in the room.
IceNext ==
  \/ \E u \in Users : mounts[u] = 0 /\ Mount(u)
  \/ \E u \in Users, ok \in BOOLEAN : MediaResolved(u, ok)
  \/ \E u \in Users : HandleJoin(u)
  \/ \E u \in Users : HandleLeave(u)
  \/ \E u \in Users, k \in 1..MaxConns : OfferStep(u, k)
  \/ \E u \in Users, m \in msgs : HandleOffer(u, m)
  \/ \E u \in Users, rb \in BOOLEAN : \E t \in tasks[u] : AnswerStep(u, t, rb)
  \/ \E u \in Users, m \in msgs : HandleAnswer(u, m)
  \/ \E u \in Users, k \in 1..MaxConns : IceFound(u, k)
  \/ \E u \in Users, m \in msgs : HandleIceCandidate(u, m)
  \/ \E u \in Users, k \in 1..MaxConns : ConnFailed(u, k)
  \/ \E u \in Users : Unmount(u)

SpecIce == PeerOnlyInit /\ [][IceNext]_vars

\* C16: in VideoGrid, once a presence leave of R has been handled, or the
\* connection mapped to R has reported disconnected or failed, the mapping
\* holds no link for R, the connection that was mapped to R is closed and no
\* remote stream is published for R.
C16_LinkTornDown ==
  [][\A u \in Users :
       LET Gone(v) ==
             /\ pcs'[u][v] = NoConn
             /\ pcs[u][v] # NoConn => conns'[u][pcs[u][v]].sig = "closed"
             /\ v \notin remoteStreams'[u]
       IN
       impl = "VideoGrid" =>
         /\ HandleLeave(u) => Gone(Head(presq[u]).who)
         /\ \A k \in 1..MaxConns :
              (ConnFailed(u, k) /\ pcs[u][conns[u][k].peer] = k)
                => Gone(conns[u][k].peer)]_vars

\* C17: when the component unmounts, every connection it has created is
\* closed and its mapping is empty.
C17_TeardownAll ==
  [][\A u \in Users :
       Unmount(u) =>
         /\ \A k \in 1..Len(conns[u]) : conns'[u][k].sig = "closed"
         /\ pcs'[u] = EmptyMap]_vars

C30_RejoinGetsNewLink ==
  [][\A u, r \in Users :
       ( /\ HandleJoin(u)
         /\ presq[u] = <<JoinEv(r)>> /\ r # u
         /\ mounted[u] /\ mounts[u] = 1 /\ stream[u] = "ok"
         /\ mounted[r] /\ mounts[r] > 1
         /\ \A k \in 1..Len(conns[r]) : conns[r][k].mount < mounts[r]
         /\ pcs[u][r] # NoConn )
       => /\ Len(conns'[u]) = Len(conns[u]) + 1
          /\ pcs'[u][r] = Len(conns'[u])
          /\ OfferTask(Len(conns'[u])) \in tasks'[u]]_vars

\* C25: in a mounted component every remote id that has a published remote
\* stream has a connection in the mapping, and no connection of the mapping is
\* closed.
C25_StreamsHaveOpenLinks ==
  \A u \in Users :
    mounted[u] =>
      /\ remoteStreams[u] \subseteq Mapped(u)
      /\ \A v \in Mapped(u) : conns[u][pcs[u][v]].sig # "closed"

\* C20: a participant whose capture devices could not be acquired is
\* subscribed to the signaling channel, creates a link when it handles a
\* presence join, and on an inbound offer creates a link and goes on to answer.
C20_NoMediaStillConnects ==
  [][\A u \in Users :
       (mounted[u] /\ stream[u] = "failed") =>
         /\ sub[u]
         /\ HandleJoin(u) => pcs'[u][Head(presq[u]).who] # NoConn
         /\ \A m \in msgs :
              HandleOffer(u, m) =>
                /\ pcs'[u][m.from] # NoConn
                /\ ~conns'[u][pcs'[u][m.from]].tracks
                /\ \E t \in tasks'[u] : t.kind = "answer"]_vars

\* ---- reconcile passes on their own: syncPlayerWithState as a function of
\* the player's position and play state and of the record, for either side
\* of components/SyncedPlayer.tsx
SyncInit ==
  /\ PeerInit /\ impl = "VideoGrid"
  /\ isHost = FALSE
  /\ \E p \in Positions, b \in BOOLEAN :
       sp = [InitClient EXCEPT !.pstate = "ready", !.cur = 1,
                               !.ppos = p, !.pplaying = b]
  /\ queue = <<1>>
  /\ added = 1
  /\ \E p \in Positions, b \in BOOLEAN :
       db = [song |-> 1, playing |-> b, pos |-> p, by |-> Other, ts |-> 1]
  /\ inflight = {}
  /\ feed = <<>>
  /\ now = 1
  /\ issued = 0
  /\ variant \in {"gated", "nongated"}
  /\ passes = <<>>
  /\ StoreIdle
  /\ RoomIdle

\* one pass with the shared record, logged with what the player was before
Reconcile ==
  /\ Len(passes) < 2
  /\ sp.pstate = "ready" /\ ~sp.isSyncing
  /\ passes' = Append(passes,
        [pos |-> sp.ppos, playing |-> sp.pplaying, state |-> db,
         cmds |-> syncCommands(variant, sp.ppos, sp.pplaying, db)])
  /\ sp' = syncPlayerWithState(variant, sp, db)
  /\ UNCHANGED <<isHost, queue, added, db, inflight, feed, now, issued, variant>>
  /\ UNCHANGED <<peerVars, storeVars, roomVars>>

SyncNext ==
  \/ Reconcile
  \/ SyncRelease

SpecSync == SyncInit /\ [][SyncNext]_vars

Seeks(cmds) == SelectSeq(cmds, LAMBDA x : x.op = "seekTo")
PlayPause(cmds) == SelectSeq(cmds, LAMBDA x : x.op # "seekTo")

\* C7: a reconcile pass issues exactly one seek, to the record's position,
\* when the player is more than 2 seconds from it, and no seek otherwise.
C7_SeekIffDrift ==
  \A i \in 1..Len(passes) :
    LET e == passes[i] IN
    IF Abs(e.pos - e.state.pos) > 2
    THEN Seeks(e.cmds) = <<SeekTo(e.state.pos)>>
    ELSE Seeks(e.cmds) = <<>>

C7_Witness ==
  /\ Len(passes) = 2
  /\ passes[1].pos = 0 /\ passes[1].state.pos = MaxPos
  /\ Seeks(passes[1].cmds) # <<>>
  /\ passes[2].pos = MaxPos /\ Seeks(passes[2].cmds) = <<>>

\* C8: a reconcile pass issues play only when the record plays and the player
\* does not, pause only when the record is paused and the player plays, and
\* neither otherwise; a second pass with the same record issues no command.
C8_PlayPauseOnlyOnDifference ==
  /\ \A i \in 1..Len(passes) :
       LET e == passes[i] IN
       PlayPause(e.cmds) =
         IF e.state.playing /\ ~e.playing THEN <<PlayVideo>>
         ELSE IF ~e.state.playing /\ e.playing THEN <<PauseVideo>>
         ELSE <<>>
  /\ Len(passes) = 2 => passes[2].cmds = <<>>

\* ---- the playback_state table under the writes of any number of sessions.
\* The repository holds two definitions of the table: migration
\* 20251020155239 declares room_id UNIQUE, migration 20251020133003 does not.
\* Without the constraint every INSERT ... ON CONFLICT (room_id) statement is
\* rejected by the database and changes nothing.
StoreInit ==
  /\ PeerInit /\ impl = "VideoGrid"
  /\ PlayIdle
  /\ uniq \in BOOLEAN
  /\ rooms \in SUBSET Rooms      \* rooms created before the table existed
  /\ rows = {}
  /\ reqs = [c \in Sessions |-> NoReq]
  /\ RoomIdle

RowsOf(t, r) == {x \in t : x.room = r}

\* a row as the table's column defaults and the given columns make it
NewRow(t, r, w) ==
  [id |-> Cardinality(t) + 1, room |-> r, rec |-> Upsert(NoRec, w)]

\* INSERT with no conflict handling on a table without the constraint
tableInsert(t, u, r, w) ==
  t \cup {NewRow(t, r, w)}

\* INSERT ... ON CONFLICT (room_id) DO UPDATE SET <the columns given>
tableUpsert(t, u, r, w) ==
  IF ~u THEN t
  ELSE IF RowsOf(t, r) = {} THEN t \cup {NewRow(t, r, w)}
  ELSE {IF x.room = r THEN [x EXCEPT !.rec = Upsert(@, w)] ELSE x : x \in t}

\* a room is created: the AFTER INSERT trigger initialize_playback_state runs
\* INSERT ... ON CONFLICT (room_id) DO NOTHING in the same transaction
CreateRoom(r, host) ==
  /\ r \notin rooms
  /\ uniq
  /\ rooms' = rooms \cup {r}
  /\ rows' = IF RowsOf(rows, r) = {}
             THEN tableUpsert(rows, uniq, r,
                    [Updates(FALSE, NoSong, FALSE, FALSE, TRUE, 0)
                       EXCEPT !.by = host, !.ts = 1])
             ELSE rows
  /\ UNCHANGED <<uniq, reqs>>
  /\ UNCHANGED <<peerVars, playVars, roomVars>>

\* loadPlaybackState in a host's session finds no row (maybeSingle gives
\* null, or an error for several rows) and sends initializePlaybackState's upsert
LoadSelect(c, r, song) ==
  /\ r \in rooms
  /\ reqs[c] = NoReq
  /\ Cardinality(RowsOf(rows, r)) # 1
  /\ reqs' = [reqs EXCEPT ![c] =
        [room |-> r,
         w |-> [Updates(TRUE, song, TRUE, FALSE, TRUE, 0)
                  EXCEPT !.kind = "init", !.by = c, !.ts = 1]]]
  /\ UNCHANGED <<uniq, rooms, rows>>
  /\ UNCHANGED <<peerVars, playVars, roomVars>>

\* updatePlaybackState in a host's session sends its upsert
UpdateRequest(c, r, playing, pos) ==
  /\ r \in rooms
  /\ reqs[c] = NoReq
  /\ reqs' = [reqs EXCEPT ![c] =
        [room |-> r,
         w |-> [Updates(FALSE, NoSong, TRUE, playing, TRUE, pos)
                  EXCEPT !.by = c, !.ts = 1]]]
  /\ UNCHANGED <<uniq, rooms, rows>>
  /\ UNCHANGED <<peerVars, playVars, roomVars>>

\* the store executes a session's upsert
StoreWrite(c) ==
  /\ reqs[c] # NoReq
  /\ rows' = tableUpsert(rows, uniq, reqs[c].room, reqs[c].w)
  /\ reqs' = [reqs EXCEPT ![c] = NoReq]
  /\ UNCHANGED <<uniq, rooms>>
  /\ UNCHANGED <<peerVars, playVars, roomVars>>

StoreNext ==
  \/ \E r \in Rooms, host \in Sessions : CreateRoom(r, host)
  \/ \E c \in Sessions, r \in Rooms : LoadSelect(c, r, 1)
  \/ \E c \in Sessions, r \in Rooms, playing \in BOOLEAN, pos \in {0, MaxPos} :
       UpdateRequest(c, r, playing, pos)
  \/ \E c \in Sessions : StoreWrite(c)

SpecStore == StoreInit /\ [][StoreNext]_vars

\* C14: whatever initialisations and writes the sessions of a room have
\* made, the table holds at most one playback_state row for the room.
C14_OneRowPerRoom ==
  \A r \in Rooms : Cardinality(RowsOf(rows, r)) <= 1

\* two sessions found room 1 without a row and both initialised it; a later
\* update has changed the one row the room has
C14_Witness ==
  /\ \E x \in RowsOf(rows, 1) : x.rec.by = 2 /\ x.rec.song = 1 /\ x.rec.playing
  /\ RowsOf(rows, 2) # {}
  /\ reqs[1] # NoReq /\ reqs[1].room = 1 /\ reqs[1].w.kind = "init"

\* ---- the Room page (src/unnamed/part_004): entering and leaving the room,
\* the SyncedPlayer it renders, and the song queue as several sessions add
\* and delete songs.  Session c is signed in as user c.
RoomInit ==
  /\ PeerInit /\ impl = "VideoGrid"
  /\ PlayIdle
  /\ StoreIdle
  /\ RoomIdle

\* the props the Room page hands to <SyncedPlayer>
SyncedPlayerProps == {"roomId", "userId", "currentSong", "onSongEnd"}

\* what the SyncedPlayer of user c reads as its isHost prop: a prop the
\* parent does not pass is undefined
isHostProp(c) ==
  IF "isHost" \in SyncedPlayerProps
    THEN (IF c = HostId THEN "true" ELSE "false")
    ELSE "undefined"

\* joinRoom: a room_participants row for the user unless one exists
joinRoom(c) ==
  IF \E p \in participants : p.user = c
    THEN participants
    ELSE participants \cup {[user |-> c, is_host |-> (c = HostId)]}

SongIds(T) == {r.id : r \in T}
PosOf(T, i) == (CHOOSE r \in T : r.id = i).pos

\* the results `order('queue_position')` can return for the rows T: rows of
\* equal position come in any order
Ordered(T) ==
  {s \in [1..Cardinality(T) -> SongIds(T)] :
     /\ \A i, j \in DOMAIN s : i # j => s[i] # s[j]
     /\ \A i, j \in DOMAIN s : i < j => PosOf(T, s[i]) <= PosOf(T, s[j])}

\* reorder_song_queue: ROW_NUMBER() OVER (ORDER BY queue_position) - 1
reorder_song_queue(T, s) == {[id |-> s[i], pos |-> i - 1] : i \in DOMAIN s}

\* loadRoom: join, load the songs, render the page with its SyncedPlayer
loadRoom(c) ==
  /\ ~entered[c]
  /\ entered' = [entered EXCEPT ![c] = TRUE]
  /\ participants' = joinRoom(c)
  /\ \E s \in Ordered(songsTable) : songsView' = [songsView EXCEPT ![c] = s]
  /\ hostFlag' = [hostFlag EXCEPT ![c] = isHostProp(c)]
  /\ UNCHANGED <<songsTable, songsAdded>>
  /\ UNCHANGED <<peerVars, playVars, storeVars>>

leaveRoom(c) ==
  /\ entered[c]
  /\ entered' = [entered EXCEPT ![c] = FALSE]
  /\ participants' = {p \in participants : p.user # c}
  /\ songsView' = [songsView EXCEPT ![c] = <<>>]
  /\ hostFlag' = [hostFlag EXCEPT ![c] = "none"]
  /\ UNCHANGED <<songsTable, songsAdded>>
  /\ UNCHANGED <<peerVars, playVars, storeVars>>

\* the songs change feed reaches session c: loadSongs
loadSongs(c) ==
  /\ entered[c]
  /\ \E s \in Ordered(songsTable) : songsView' = [songsView EXCEPT ![c] = s]
  /\ UNCHANGED <<entered, participants, hostFlag, songsTable, songsAdded>>
  /\ UNCHANGED <<peerVars, playVars, storeVars>>

handleAddSong(c) ==
  /\ entered[c]
  /\ songsAdded < MaxAdds
  /\ songsAdded' = songsAdded + 1
  /\ songsTable' = songsTable \cup
       {[id |-> songsAdded + 1, pos |-> Len(songsView[c])]}
  /\ UNCHANGED <<entered, participants, hostFlag, songsView>>
  /\ UNCHANGED <<peerVars, playVars, storeVars>>

\* delete by id; the delete policy wants the user among the participants,
\* and the trigger renumbers what is left
deleteSong(c, id) ==
  IF id \in SongIds(songsTable) /\ (\E p \in participants : p.user = c)
    THEN \E s \in Ordered({r \in songsTable : r.id # id}) :
           songsTable' = reorder_song_queue({r \in songsTable : r.id # id}, s)
    ELSE songsTable' = songsTable

handleDeleteSong(c, i) ==
  /\ entered[c]
  /\ i \in DOMAIN songsView[c]
  /\ deleteSong(c, songsView[c][i])
  /\ UNCHANGED <<entered, participants, hostFlag, songsAdded, songsView>>
  /\ UNCHANGED <<peerVars, playVars, storeVars>>

handleSongEnd(c) ==
  /\ entered[c]
  /\ Len(songsView[c]) > 0
  /\ deleteSong(c, songsView[c][1])
  /\ UNCHANGED <<entered, participants, hostFlag, songsAdded, songsView>>
  /\ UNCHANGED <<peerVars, playVars, storeVars>>

RoomNext ==
  \/ \E c \in Sessions : loadRoom(c)
  \/ \E c \in Sessions : leaveRoom(c)
  \/ \E c \in Sessions : loadSongs(c)
  \/ \E c \in Sessions : handleAddSong(c)
  \/ \E c \in Sessions, i \in 1..MaxAdds : handleDeleteSong(c, i)
  \/ \E c \in Sessions : handleSongEnd(c)

SpecRoom == RoomInit /\ [][RoomNext]_vars

\* C22: the isHost flag of a participant's SyncedPlayer is true exactly when
\* the participant is the room's host, and false for everybody else.
C22_HostFlag ==
  \A c \in Sessions :
    entered[c] => /\ c = HostId => hostFlag[c] = "true"
                  /\ c # HostId => hostFlag[c] = "false"

\* C26: whatever the interleaving of add-song and delete-song by the sessions
\* of a room, no two songs rows of the room have the same queue position.
C26_PositionsDistinct ==
  \A r1, r2 \in songsTable : r1.pos = r2.pos => r1.id = r2.id

====
